---- MODULE Spec2Model ----
(***************************************************************************)
(* A model of es_client's configuration resolution: Builder construction   *)
(* (process_config_opts, host normalisation, update_config, validate),     *)
(* the SecretStore, check_config with the schema defaults, and the utility *)
(* functions they call (verify_url_schema, parse_apikey_token,             *)
(* prune_nones).                                                           *)
(*                                                                         *)
(* Python values are records with a field t naming the type; a dict is a   *)
(* TLA+ function from its keys to values.  A Python string is a sequence   *)
(* of tokens, each token either the separator ":" or a non-empty run of    *)
(* characters holding no ":", so that str.split(":") is computed.          *)
(***************************************************************************)
EXTENDS Integers, Sequences, FiniteSets, TLC

VARIABLES phase, inp, b, exc, ops, built0, ES_DEFAULT, util, ss, cluster, ctx, sc, builderB

\* the Builder under construction and use, with the module-level ES_DEFAULT
builderVars == <<phase, inp, b, exc, ops, built0, ES_DEFAULT>>

vars == <<builderVars, util, ss, cluster, ctx, sc, builderB>>

(***************************************************************************)
(* Bounds                                                                  *)
(***************************************************************************)
\* how many methods are called on a Builder after its construction
MaxOps == 2

\* how many store_secret and get_secret calls are made on one SecretStore
MaxStoreOps == 4

(***************************************************************************)
(* Python values                                                           *)
(***************************************************************************)
None == [t |-> "None"]

Str(s) == [t |-> "str", v |-> s]

\* a string holding no ":"
S(c) == Str(<<c>>)

Tuple(s) == [t |-> "tuple", v |-> s]

List(s) == [t |-> "list", v |-> s]

Bool(x) == [t |-> "bool", v |-> x]

EmptyDict == [k \in {} |-> None]

IsDict(x) == "t" \notin DOMAIN x

IsNone(x) == IF IsDict(x) THEN FALSE ELSE x.t = "None"

\* an int of Python
Int_(n) == [t |-> "int", v |-> n]

\* bool(x) of Python
Truthy(x) ==
    IF IsDict(x) THEN DOMAIN x # {}
    ELSE CASE x.t = "None" -> FALSE
           [] x.t = "bool" -> x.v
           [] OTHER -> x.v # <<>>

\* d.get(k)
Get(d, k) == IF k \in DOMAIN d THEN d[k] ELSE None

\* d[k] = v
Put(d, k, v) == [j \in (DOMAIN d) \cup {k} |-> IF j = k THEN v ELSE d[j]]

\* d.update(e)
Update(d, e) == [j \in (DOMAIN d) \cup (DOMAIN e) |-> IF j \in DOMAIN e THEN e[j] ELSE d[j]]

(***************************************************************************)
(* Strings                                                                 *)
(***************************************************************************)
\* the tokens of a Python string that is one run of characters (or empty)
Tok(c) == IF c = "" THEN <<>> ELSE <<c>>

RECURSIVE SplitAcc(_, _, _)
SplitAcc(s, cur, acc) ==
    IF s = <<>> THEN Append(acc, cur)
    ELSE IF Head(s) = ":" THEN SplitAcc(Tail(s), "", Append(acc, cur))
    ELSE SplitAcc(Tail(s), cur \o Head(s), acc)

\* s.split(":"): the runs between the separators, "" for an empty run
Split(s) == SplitAcc(s, "", <<>>)

LowerChunk(c) ==
    CASE c = "HTTP" -> "http"
      [] c = "HTTPS" -> "https"
      [] c = "Https" -> "https"
      [] c = "FTP" -> "ftp"
      [] c = "//ES.LOCAL" -> "//es.local"
      [] OTHER -> c

\* s.lower()
Lower(s) == [i \in 1..Len(s) |-> LowerChunk(s[i])]

(***************************************************************************)
(* Results of functions that may raise: exc names the exception            *)
(***************************************************************************)
\* the value of a one-element set: the result of a step, computed once
Only(set) == CHOOSE x \in set : TRUE

Ok(v) == [exc |-> "none", ret |-> v]

Raise(e) == [exc |-> e, ret |-> None]

(***************************************************************************)
(* utils.py                                                                *)
(***************************************************************************)
\* parts[0] + ":" + parts[1] + ":" + port
UrlJoin(p0, p1, port) == Tok(p0) \o <<":">> \o Tok(p1) \o <<":">> \o Tok(port)

\* a verify_url_schema that compares the scheme as it is written
verify_url_schema_nolower(url) ==
    LET parts == Split(url)
        n == Len(parts)
    IN  IF n < 3
        THEN IF parts[1] \in {"https", "http"}
             THEN IF n < 2 THEN Raise("IndexError")
                  ELSE Ok(Str(UrlJoin(parts[1], parts[2],
                                      IF parts[1] = "https" THEN "443" ELSE "80")))
             ELSE Raise("ConfigurationError")
        ELSE IF n = 3
        THEN IF parts[1] # "http" /\ parts[1] # "https"
             THEN Raise("ConfigurationError")
             ELSE Ok(Str(UrlJoin(parts[1], parts[2], parts[3])))
        ELSE Raise("ConfigurationError")

verify_url_schema(url) ==
    LET parts == Split(Lower(url))
        n == Len(parts)
    IN  IF n < 3
        THEN IF parts[1] \in {"https", "http"}
             THEN IF n < 2 THEN Raise("IndexError")
                  ELSE Ok(Str(UrlJoin(parts[1], parts[2],
                                      IF parts[1] = "https" THEN "443" ELSE "80")))
             ELSE Raise("ConfigurationError")
        ELSE IF n = 3
        THEN IF parts[1] # "http" /\ parts[1] # "https"
             THEN Raise("ConfigurationError")
             ELSE Ok(Str(UrlJoin(parts[1], parts[2], parts[3])))
        ELSE Raise("ConfigurationError")

\* base64.b64decode(token).decode("utf-8") for the tokens of the model
B64Decode(token) ==
    CASE token = <<"Zm9vOmJhcg==">> -> Ok(Str(<<"foo", ":", "bar">>))
      [] token = <<"eDp5">> -> Ok(Str(<<"x", ":", "y">>))
      [] token = <<"YTpiOmM=">> -> Ok(Str(<<"a", ":", "b", ":", "c">>))
      [] token = <<"bm9jb2xvbg==">> -> Ok(Str(<<"nocolon">>))
      [] token = <<"Og==">> -> Ok(Str(<<":">>))
      [] token = <<>> -> Ok(Str(<<>>))
      [] token = <<"/w==">> -> Raise("UnicodeDecodeError")
      [] token = <<"This is an invalid token">> -> Raise("UnicodeDecodeError")
      [] OTHER -> Raise("binascii.Error")

parse_apikey_token(token) ==
    LET decoded == B64Decode(token)
    IN  IF decoded.exc \in {"binascii.Error", "IndexError", "UnicodeDecodeError"}
        THEN Raise("ConfigurationError")
        ELSE LET split == Split(decoded.ret.v)
             IN  IF Len(split) < 2 THEN Raise("IndexError")
                 ELSE Ok(Tuple(<<Str(Tok(split[1])), Str(Tok(split[2]))>>))

prune_nones(mydict) ==
    LET keep == {k \in DOMAIN mydict :
                    IF IsDict(mydict[k]) THEN TRUE
                    ELSE mydict[k].t # "None"
                         /\ ~(mydict[k].t = "str" /\ mydict[k].v = <<"None">>)}
    IN  [k \in keep |-> mydict[k]]

ensure_list(data) ==
    IF IsDict(data) THEN List(<<data>>)
    ELSE IF data.t = "list" THEN data ELSE List(<<data>>)

\* the files of the model that read_file can open
ReadableFiles == {<<"/etc/ca.pem">>, <<"/certifi/cacert.pem">>}

file_exists(file) == file \in ReadableFiles

\* certifi.where()
CertifiWhere == Str(<<"/certifi/cacert.pem">>)

read_file(myfile) ==
    IF myfile \in ReadableFiles THEN Ok(None) ELSE Raise("ConfigurationError")

verify_ssl_paths(args) ==
    LET named == {k \in {"ca_certs", "client_cert", "client_key"} :
                     k \in DOMAIN args /\ args[k] # None}
    IN  IF \E k \in named : read_file(args[k].v).exc # "none"
        THEN Raise("ConfigurationError") ELSE Ok(None)

(***************************************************************************)
(* defaults.py: the settings names and the schema                          *)
(***************************************************************************)
\* the client settings the model carries (a subset of CLIENT_SETTINGS)
CLIENT_SETTINGS ==
    {"hosts", "cloud_id", "api_key", "basic_auth", "bearer_auth",
     "ca_certs", "client_cert", "client_key", "max_retries"}

OTHER_SETTINGS == {"master_only", "skip_version_test", "username", "password", "api_key"}

DefaultHost == <<"http", ":", "//127.0.0.1", ":", "9200">>

VERSION_MIN == Tuple(<<8, 0, 0>>)

VERSION_MAX == Tuple(<<8, 99, 99>>)

ES_DEFAULT_initial ==
    [elasticsearch |-> [client |-> [hosts |-> List(<<Str(DefaultHost)>>)]]]

\* the types the schema accepts for a key of the client block
ClientTypes(k) ==
    CASE k = "hosts" -> {"None", "list", "str"}
      [] k \in {"api_key", "basic_auth"} -> {"None", "tuple"}
      [] k = "max_retries" -> {"None", "int"}
      [] OTHER -> {"None", "str"}

\* Range(min=1, max=100) on max_retries
InRange(k, v) == (k = "max_retries" /\ v.t = "int") => (1 <= v.v /\ v.v <= 100)

\* the types the schema accepts for a scalar key of other_settings
OtherTypes(k) ==
    IF k \in {"master_only", "skip_version_test"} THEN {"bool"} ELSE {"None", "str"}

HasType(v, types) == IF IsDict(v) THEN FALSE ELSE v.t \in types

ApiKeyBlockOk(a) ==
    /\ IsDict(a)
    /\ DOMAIN a \subseteq {"id", "api_key", "token"}
    /\ \A k \in DOMAIN a : HasType(a[k], {"None", "str"})

ClientBlockOk(c) ==
    /\ IsDict(c)
    /\ DOMAIN c \subseteq CLIENT_SETTINGS
    /\ \A k \in DOMAIN c : HasType(c[k], ClientTypes(k)) /\ InRange(k, c[k])

OtherBlockOk(o) ==
    /\ IsDict(o)
    /\ DOMAIN o \subseteq OTHER_SETTINGS
    /\ \A k \in DOMAIN o :
          IF k = "api_key" THEN ApiKeyBlockOk(o[k]) ELSE HasType(o[k], OtherTypes(k))

OtherDefaults ==
    [master_only |-> Bool(FALSE), skip_version_test |-> Bool(FALSE),
     username |-> None, password |-> None, api_key |-> EmptyDict]

ClientDefaults == [hosts |-> None, cloud_id |-> None]

\* config_schema()(data): the validated structure with the defaults filled in
config_schema(data) ==
    IF /\ IsDict(data)
       /\ DOMAIN data \subseteq {"client", "other_settings"}
       /\ ("client" \in DOMAIN data => ClientBlockOk(data.client))
       /\ ("other_settings" \in DOMAIN data => OtherBlockOk(data.other_settings))
    THEN Ok([client |-> Update(ClientDefaults,
                        IF "client" \in DOMAIN data THEN data.client ELSE EmptyDict),
             other_settings |-> Update(OtherDefaults,
                        IF "other_settings" \in DOMAIN data THEN data.other_settings
                        ELSE EmptyDict)])
    ELSE Raise("Invalid")

\* defaults.KEYS_TO_REDACT
KEYS_TO_REDACT == {"password", "basic_auth", "bearer_auth", "api_key", "id", "opaque_id"}

RECURSIVE iterdict(_)
\* password_filter's iterdict: the dict it was handed, as it leaves it
iterdict(mydict) ==
    [key \in DOMAIN mydict |->
        IF IsDict(mydict[key]) THEN iterdict(mydict[key])
        ELSE IF key \in KEYS_TO_REDACT THEN S("REDACTED")
        ELSE mydict[key]]

\* password_filter(data): what it returns, and data as the caller finds it after
\* the call (iterdict works on a deepcopy)
password_filter(data) ==
    [ret |-> iterdict(data), data |-> data]

\* the paths at which config_schema()(data) finds an error, each the keys from
\* data down to the offending field
SchemaErrors(data) ==
    IF ~IsDict(data) THEN {<<>>}
    ELSE
    LET blockErrors(name, known, ok(_, _)) ==
            IF name \notin DOMAIN data THEN {}
            ELSE IF ~IsDict(data[name]) THEN {<<name>>}
            ELSE {<<name, k>> : k \in {j \in DOMAIN data[name] :
                                          j \notin known \/ ~ok(j, data[name][j])}}
        clientOk(k, v) == HasType(v, ClientTypes(k)) /\ InRange(k, v)
        otherOk(k, v) == IF k = "api_key" THEN IsDict(v) ELSE HasType(v, OtherTypes(k))
        apiKey == IF "other_settings" \in DOMAIN data /\ IsDict(data.other_settings)
                     /\ "api_key" \in DOMAIN data.other_settings
                     /\ IsDict(data.other_settings.api_key)
                  THEN data.other_settings.api_key ELSE EmptyDict
    IN  {<<k>> : k \in (DOMAIN data) \ {"client", "other_settings"}}
        \cup blockErrors("client", CLIENT_SETTINGS, clientOk)
        \cup blockErrors("other_settings", OTHER_SETTINGS, otherOk)
        \cup {<<"other_settings", "api_key", k>> :
                 k \in {j \in DOMAIN apiKey :
                           j \notin {"id", "api_key", "token"}
                           \/ ~HasType(apiKey[j], {"None", "str"})}}

\* SchemaCheck(config, schema, test_what, location)
SchemaCheck__init__(config) ==
    [config |-> config, badvalue |-> S("no bad value yet"), error |-> S("No error yet"),
     exc |-> "none", ret |-> None, called |-> FALSE]

RECURSIVE get_badvalue(_, _, _)
\* parse_error's get_badvalue over the keys named by the error's path
get_badvalue(elements, data, value) ==
    IF elements = <<>> THEN Ok(value)
    ELSE IF IsNone(value)
    THEN IF IsDict(data) /\ Head(elements) \in DOMAIN data
         THEN get_badvalue(Tail(elements), data, data[Head(elements)])
         ELSE Raise("KeyError")
    ELSE get_badvalue(Tail(elements), data, value)

parse_error(self) ==
    LET r == get_badvalue(self.error, self.config, None)
    IN  [self EXCEPT !.badvalue = IF r.exc = "none" THEN r.ret
                                  ELSE S("(could not determine)")]

\* result() of a SchemaCheck object; error is exc.errors[0] of the schema, if any
result(self, error) ==
    LET r == config_schema(self.config)
    IN  IF r.exc = "none"
        THEN [self EXCEPT !.ret = r.ret, !.called = TRUE]
        ELSE [parse_error([self EXCEPT !.error = error])
                 EXCEPT !.exc = "FailedValidation", !.called = TRUE]

\* SchemaCheck(config, schema, ...).result()
SchemaCheck_result(config) ==
    LET r == config_schema(config)
    IN  IF r.exc = "none" THEN r ELSE Raise("FailedValidation")

\* a check_config that keeps the last configuration it was given as the default
check_config_leaky(config, esd) ==
    LET useDefault == IF IsDict(config) THEN "elasticsearch" \notin DOMAIN config ELSE TRUE
        es_settings == IF useDefault THEN esd ELSE config
        es == es_settings.elasticsearch
    IN  IF ~IsDict(es)
        THEN [exc |-> "TypeError", ret |-> None, esd |-> esd, config |-> config]
        ELSE IF \E k \in {"client", "other_settings"} \cap DOMAIN es : ~IsDict(es[k])
        THEN [exc |-> "AttributeError", ret |-> None, esd |-> esd, config |-> config]
        ELSE
        LET es2 == [k \in (DOMAIN es) \cup {"client", "other_settings"} |->
                       IF k \in {"client", "other_settings"}
                       THEN IF k \in DOMAIN es THEN prune_nones(es[k]) ELSE EmptyDict
                       ELSE es[k]]
            settings2 == [es_settings EXCEPT !.elasticsearch = es2]
            r == SchemaCheck_result(es2)
        IN  [exc |-> r.exc, ret |-> r.ret,
             esd |-> [elasticsearch |-> es2],
             config |-> IF useDefault THEN config ELSE settings2]

\* check_config(config): the validated structure; esd is ES_DEFAULT and config
\* the caller's dict, both as the call leaves them
check_config(config, esd) ==
    LET useDefault == IF IsDict(config) THEN "elasticsearch" \notin DOMAIN config ELSE TRUE
        es_settings == IF useDefault THEN esd ELSE config
        es == es_settings.elasticsearch
    IN  IF ~IsDict(es)
        THEN [exc |-> "TypeError", ret |-> None, esd |-> esd, config |-> config]
        ELSE IF \E k \in {"client", "other_settings"} \cap DOMAIN es : ~IsDict(es[k])
        THEN [exc |-> "AttributeError", ret |-> None, esd |-> esd, config |-> config]
        ELSE
        LET es2 == [k \in (DOMAIN es) \cup {"client", "other_settings"} |->
                       IF k \in {"client", "other_settings"}
                       THEN IF k \in DOMAIN es THEN prune_nones(es[k]) ELSE EmptyDict
                       ELSE es[k]]
            settings2 == [es_settings EXCEPT !.elasticsearch = es2]
            r == SchemaCheck_result(es2)
        IN  [exc |-> r.exc, ret |-> r.ret,
             esd |-> IF useDefault THEN settings2 ELSE esd,
             config |-> IF useDefault THEN config ELSE settings2]

(***************************************************************************)
(* builder.py: SecretStore                                                 *)
(***************************************************************************)
\* json.loads(json.dumps(value)): a tuple is written as an array, read as a list
JsonDumps(value) ==
    IF IsDict(value) THEN value
    ELSE IF value.t = "tuple" THEN List(value.v) ELSE value

\* Fernet(key).encrypt(data)
Encrypt(key, data) == [key |-> key, data |-> data]

\* Fernet(key).decrypt(ct)
Decrypt(key, ct) == IF ct.key = key THEN Ok(ct.data) ELSE Raise("InvalidToken")

SecretStore(key) == [fernet |-> key, secrets |-> EmptyDict]

store_secret(store, name, value) ==
    [store EXCEPT !.secrets = Put(store.secrets, name, Encrypt(store.fernet, JsonDumps(value)))]

get_secret(store, name) ==
    IF name \in DOMAIN store.secrets
    THEN Decrypt(store.fernet, store.secrets[name]).ret
    ELSE None

(***************************************************************************)
(* builder.py: Builder.  A method takes the Builder's attributes and gives *)
(* them back as the call leaves them, with exc naming what it raised.      *)
(***************************************************************************)
UNSET == [t |-> "unset"]

\* a method that returns normally
Done(self) == [exc |-> "none", self |-> self]

\* a method that raises, leaving the attributes as they are at the raise
Throw(e, self) == [exc |-> e, self |-> self]

\* run the method M on the outcome r of an earlier call unless that call raised
Then(r, M(_)) == Only({IF x.exc # "none" THEN x ELSE M(x.self) : x \in {r}})

\* elasticsearch8.Elasticsearch(**kwargs): a handle that keeps the arguments it
\* was made with and the queries made on it
Elasticsearch(kwargs) == [kwargs |-> kwargs, calls |-> <<>>]

\* the attributes __init__ sets before process_config_opts
NewBuilder(key) ==
    [config |-> UNSET,
     secrets |-> SecretStore(key),
     client_args |-> [k \in CLIENT_SETTINGS |-> None],
     other_args |-> [k \in OTHER_SETTINGS |-> None],
     master_only |-> UNSET, is_master |-> UNSET, skip_version_test |-> UNSET,
     client |-> Elasticsearch([hosts |-> Str(DefaultHost)]),
     version_min |-> UNSET, version_max |-> UNSET]

\* the configuration files of the model: what get_yaml loads from each
YamlFiles ==
    ("a.yml" :> [elasticsearch |->
        [client |-> [hosts |-> List(<<Str(<<"https", ":", "//es.local", ":", "9243">>)>>)],
         other_settings |-> [username |-> S("fileuser"), password |-> S("filepw")]]])
    @@
    ("b.yml" :> [elasticsearch |->
        [client |-> [cloud_id |-> Str(<<"file", ":", "cloud">>)],
         other_settings |-> [api_key |-> [id |-> S("fid"), api_key |-> S("fkey")]]]])

\* single.match(value).group(1): what stands between "${" and "}", if value has
\* that form
single_match(value) ==
    IF Len(value) >= 2 /\ value[1] = "${" /\ value[Len(value)] = "}"
    THEN Ok(SubSeq(value, 2, Len(value) - 1))
    ELSE Raise("NoMatch")

\* get_yaml's single_constructor on a scalar of the form ${...}, under the
\* environment environ; unpacking more than two parts raises ValueError
single_constructor(value, environ) ==
    LET proto == single_match(value).ret
        parts == Split(proto)
    IN  IF Len(parts) > 2 THEN Raise("ValueError")
        ELSE LET envvar == parts[1]
                 default == IF Len(parts) > 1 THEN Str(Tok(parts[2])) ELSE None
             IN  Ok(IF envvar \in DOMAIN environ THEN Str(environ[envvar]) ELSE default)

\* get_yaml(path); a path that is no file of the model cannot be read
get_yaml(path) ==
    IF Len(path) = 1 /\ path[1] \in DOMAIN YamlFiles
    THEN Ok(YamlFiles[path[1]])
    ELSE Raise("ConfigurationError")

process_config_opts(self, configdict, configfile, esd) ==
    IF Truthy(configfile)
    THEN LET y == get_yaml(configfile.v)
         IN  IF y.exc # "none"
             THEN [exc |-> y.exc, self |-> self, esd |-> esd, configdict |-> configdict]
             ELSE LET c == check_config(y.ret, esd)
                  IN  [exc |-> c.exc,
                       self |-> IF c.exc = "none" THEN [self EXCEPT !.config = c.ret] ELSE self,
                       esd |-> c.esd, configdict |-> configdict]
    ELSE IF Truthy(configdict)
    THEN LET c == check_config(configdict, esd)
         IN  [exc |-> c.exc,
              self |-> IF c.exc = "none" THEN [self EXCEPT !.config = c.ret] ELSE self,
              esd |-> c.esd, configdict |-> c.config]
    ELSE LET c == check_config(esd.elasticsearch, esd)
         IN  [exc |-> c.exc,
              self |-> IF c.exc = "none" THEN [self EXCEPT !.config = c.ret] ELSE self,
              esd |-> c.esd, configdict |-> configdict]

\* __init__, "Validate host schemas immediately"
init_verify_hosts(self) ==
    LET hosts == Get(self.config.client, "hosts")
    IN  IF ~Truthy(hosts) THEN Done(self)
        ELSE LET lst == ensure_list(hosts).v
                 res == [i \in 1..Len(lst) |-> verify_url_schema(lst[i].v)]
                 bad == {i \in 1..Len(lst) : res[i].exc # "none"}
             IN  IF bad # {}
                 THEN LET first == CHOOSE i \in bad : \A j \in bad : i <= j
                      IN  Throw(res[first].exc, self)
                 ELSE Done([self EXCEPT !.config.client.hosts =
                                List([i \in 1..Len(lst) |-> res[i].ret])])

\* a round that moves the field whether or not it holds a value
MoveSecret_always(self, field) ==
    IF field \in DOMAIN self.client_args
    THEN [self EXCEPT !.secrets = store_secret(self.secrets, field, self.client_args[field]),
                      !.client_args = Put(self.client_args, field, None),
                      !.config.client = Put(self.config.client, field, None)]
    ELSE self

\* update_config: one round of the loop over the sensitive fields
MoveSecret(self, field) ==
    IF field \in DOMAIN self.client_args /\ self.client_args[field] # None
    THEN [self EXCEPT !.secrets = store_secret(self.secrets, field, self.client_args[field]),
                      !.client_args = Put(self.client_args, field, None),
                      !.config.client = Put(self.config.client, field, None)]
    ELSE self

update_config(self) ==
    LET s1 == [self EXCEPT !.client_args = Update(self.client_args, self.config.client),
                           !.other_args = Update(self.other_args, self.config.other_settings)]
        s2 == MoveSecret(MoveSecret(MoveSecret(s1, "basic_auth"), "api_key"), "bearer_auth")
        s3 == IF "password" \in DOMAIN s2.other_args /\ s2.other_args.password # None
              THEN [s2 EXCEPT !.secrets = store_secret(s2.secrets, "password",
                                                       s2.other_args.password),
                              !.other_args.password = None,
                              !.config.other_settings.password = None]
              ELSE s2
    IN  Done([s3 EXCEPT !.master_only = s3.other_args.master_only,
                        !.is_master = Bool(FALSE),
                        !.skip_version_test =
                            IF "skip_version_test" \in DOMAIN s3.other_args
                            THEN s3.other_args.skip_version_test ELSE Bool(FALSE)])

\* a _check_basic_auth that misses a username given without a password
_check_basic_auth_lax(self) ==
    IF "username" \in DOMAIN self.other_args \/ "password" \in DOMAIN self.other_args
    THEN LET usr == IF "username" \in DOMAIN self.other_args
                    THEN self.other_args.username ELSE None
             pwd == get_secret(self.secrets, "password")
         IN  IF usr = None /\ pwd = None THEN Done(self)
             ELSE IF usr = None THEN Throw("ConfigurationError", self)
             ELSE Done([self EXCEPT !.secrets =
                           store_secret(self.secrets, "basic_auth", Tuple(<<usr, pwd>>))])
    ELSE Done(self)

_check_basic_auth(self) ==
    IF "username" \in DOMAIN self.other_args \/ "password" \in DOMAIN self.other_args
    THEN LET usr == IF "username" \in DOMAIN self.other_args
                    THEN self.other_args.username ELSE None
             pwd == get_secret(self.secrets, "password")
         IN  IF usr = None /\ pwd = None THEN Done(self)
             ELSE IF usr = None \/ pwd = None THEN Throw("ConfigurationError", self)
             ELSE Done([self EXCEPT !.secrets =
                           store_secret(self.secrets, "basic_auth", Tuple(<<usr, pwd>>))])
    ELSE Done(self)

\* DotMap(value): a value that is no dict gives an empty map
DotMap(value) == IF IsDict(value) THEN value ELSE EmptyDict

\* _check_api_key, the branch taken when a token is given
_check_api_key_token(self, api_key_config) ==
    LET r == parse_apikey_token(api_key_config.token.v)
    IN  IF r.exc # "none" THEN Throw(r.exc, self)
        ELSE Done([self EXCEPT
               !.secrets = store_secret(self.secrets, "api_key", r.ret),
               !.other_args.api_key = Put(self.other_args.api_key, "token", None),
               !.config.other_settings.api_key =
                   Put(self.config.other_settings.api_key, "token", None)])

\* a _check_api_key that lets a half-given id/api_key pair pass
_check_api_key_pair_lax(self, api_key_config) ==
    LET api_id == Get(api_key_config, "id")
        api_key == Get(api_key_config, "api_key")
    IN  IF api_id = None \/ api_key = None
        THEN Done([self EXCEPT !.secrets = store_secret(self.secrets, "api_key", None)])
        ELSE Done([self EXCEPT
               !.secrets = store_secret(self.secrets, "api_key", Tuple(<<api_id, api_key>>)),
               !.other_args.api_key =
                   Put(Put(self.other_args.api_key, "id", None), "api_key", None),
               !.config.other_settings.api_key =
                   Put(Put(self.config.other_settings.api_key, "id", None),
                       "api_key", None)])

\* _check_api_key, the branch taken when no token is given
_check_api_key_pair(self, api_key_config) ==
    LET api_id == Get(api_key_config, "id")
        api_key == Get(api_key_config, "api_key")
    IN  IF api_id = None /\ api_key = None
        THEN Done([self EXCEPT !.secrets = store_secret(self.secrets, "api_key", None)])
        ELSE IF api_id = None \/ api_key = None
        THEN Throw("ConfigurationError", self)
        ELSE Done([self EXCEPT
               !.secrets = store_secret(self.secrets, "api_key", Tuple(<<api_id, api_key>>)),
               !.other_args.api_key =
                   Put(Put(self.other_args.api_key, "id", None), "api_key", None),
               !.config.other_settings.api_key =
                   Put(Put(self.config.other_settings.api_key, "id", None),
                       "api_key", None)])

\* a _check_api_key in which an id/api_key pair goes before the token
_check_api_key_pair_first(self) ==
    IF "api_key" \notin DOMAIN self.other_args THEN Done(self)
    ELSE
    LET api_key_config == DotMap(self.other_args.api_key)
    IN  IF /\ Truthy(Get(api_key_config, "token"))
           /\ Get(api_key_config, "id") = None
           /\ Get(api_key_config, "api_key") = None
        THEN _check_api_key_token(self, api_key_config)
        ELSE _check_api_key_pair(self, api_key_config)

_check_api_key(self) ==
    IF "api_key" \notin DOMAIN self.other_args THEN Done(self)
    ELSE
    LET api_key_config == DotMap(self.other_args.api_key)
    IN  IF Truthy(Get(api_key_config, "token"))
        THEN _check_api_key_token(self, api_key_config)
        ELSE _check_api_key_pair(self, api_key_config)

\* a _check_cloud_id that drops whatever hosts are configured
_check_cloud_id_lax(self) ==
    IF "cloud_id" \in DOMAIN self.client_args /\ self.client_args.cloud_id # None
    THEN Done([self EXCEPT !.client_args.hosts = None])
    ELSE Done(self)

_check_cloud_id(self) ==
    IF "cloud_id" \in DOMAIN self.client_args /\ self.client_args.cloud_id # None
    THEN LET s1 == IF self.client_args.hosts = List(<<Str(DefaultHost)>>)
                   THEN [self EXCEPT !.client_args.hosts = None]
                   ELSE self
         IN  IF s1.client_args.hosts # None
             THEN Throw("ConfigurationError", s1)
             ELSE Done(s1)
    ELSE Done(self)

_check_ssl(self) ==
    IF verify_ssl_paths(self.client_args).exc # "none"
    THEN Throw("ConfigurationError", self)
    ELSE
    LET ca == self.client_args
        byCloud == "cloud_id" \in DOMAIN ca /\ ca.cloud_id # None
        hostsBad == ~byCloud /\ ca.hosts # None /\ ca.hosts.v = <<>>
        scheme == IF byCloud THEN "https"
                  ELSE IF ca.hosts = None THEN "None"
                  ELSE LowerChunk(Split(ca.hosts.v[1].v)[1])
    IN  IF hostsBad THEN Throw("IndexError", self)
        ELSE IF scheme = "https"
        THEN IF "ca_certs" \notin DOMAIN ca \/ ~Truthy(ca.ca_certs)
             THEN Done([self EXCEPT !.client_args.ca_certs = CertifiWhere])
             ELSE IF \E k \in {"ca_certs", "client_cert", "client_key"} :
                        k \in DOMAIN ca /\ Truthy(ca[k]) /\ ~file_exists(ca[k].v)
             THEN Throw("ConfigurationError", self)
             ELSE Done(self)
        ELSE Done(self)

validate(self) ==
    Then(Then(Then(_check_basic_auth(self), _check_api_key), _check_cloud_id), _check_ssl)

\* __init__: version_max and version_min from the arguments' defaults
init_set_versions(self) ==
    Done([self EXCEPT !.version_max = VERSION_MAX, !.version_min = VERSION_MIN])

\* Builder(configdict, configfile): the attributes of the new Builder, exc, and
\* ES_DEFAULT and the caller's configdict as the call leaves them
Builder__init__(configdict, configfile, esd, key) ==
    Only({Only({[exc |-> r.exc, self |-> r.self, esd |-> p.esd, configdict |-> p.configdict] :
                r \in {Then(Then(Then(Then([exc |-> p.exc, self |-> p.self],
                           init_verify_hosts), init_set_versions), update_config), validate)}}) :
          p \in {process_config_opts(NewBuilder(key), configdict, configfile, esd)}})

(***************************************************************************)
(* builder.py: connect() and the checks it makes on the connection handle. *)
(* The service is what the handle's queries answer: the version text of    *)
(* info(), the id of the local node and the id of the elected master.      *)
(* A version text is a sequence of tokens: numbers, dots, dashes, words.    *)
(***************************************************************************)
VNum(n) == [k |-> "num", n |-> n]

VDot == [k |-> "dot"]

VDash == [k |-> "dash"]

VWord == [k |-> "word"]

RECURSIVE SplitTok(_, _, _, _)
\* text.split(sep) on tokens: the runs of tokens between the separators
SplitTok(text, sep, cur, acc) ==
    IF text = <<>> THEN Append(acc, cur)
    ELSE IF Head(text) = sep THEN SplitTok(Tail(text), sep, <<>>, Append(acc, cur))
    ELSE SplitTok(Tail(text), sep, Append(cur, Head(text)), acc)

\* int(text) succeeds on a run of digits only
IsInt(seg) == Len(seg) = 1 /\ seg[1].k = "num"

\* the handle after the query named q was made on it
Called(client, q) == [client EXCEPT !.calls = Append(client.calls, q)]

\* get_version(client): the version tuple or what it raises, and the handle
get_version(client, service) ==
    LET version == SplitTok(service.version, VDash, <<>>, <<>>)[1]
        dotted == SplitTok(version, VDot, <<>>, <<>>)
        parts == IF Len(dotted) > 3 THEN SubSeq(dotted, 1, Len(dotted) - 1) ELSE dotted
        c == Called(client, "info")
    IN  IF \A i \in 1..Len(parts) : IsInt(parts[i])
        THEN [exc |-> "none", ret |-> Tuple([i \in 1..Len(parts) |-> parts[i][1].n]),
              client |-> c]
        ELSE [exc |-> "ValueError", ret |-> None, client |-> c]

RECURSIVE TupleLess(_, _)
\* x < y on Python tuples of integers
TupleLess(x, y) ==
    IF y = <<>> THEN FALSE
    ELSE IF x = <<>> THEN TRUE
    ELSE IF Head(x) # Head(y) THEN Head(x) < Head(y)
    ELSE TupleLess(Tail(x), Tail(y))

_get_client(self) ==
    LET client_args == prune_nones(self.client_args)
        fields == {f \in {"basic_auth", "api_key", "bearer_auth"} :
                      get_secret(self.secrets, f) # None}
        kwargs == [k \in (DOMAIN client_args) \cup fields |->
                      IF k \in fields
                      THEN IF k = "basic_auth"
                           THEN Tuple(get_secret(self.secrets, k).v)
                           ELSE get_secret(self.secrets, k)
                      ELSE client_args[k]]
    IN  Done([self EXCEPT !.client = Elasticsearch(kwargs)])

\* a _check_version that accepts a version equal to version_max
_check_version_inclusive(self, service) ==
    LET g == get_version(self.client, service)
        s1 == [self EXCEPT !.client = g.client]
    IN  IF g.exc # "none" THEN Throw(g.exc, s1)
        ELSE IF Truthy(self.skip_version_test) THEN Done(s1)
        ELSE IF TupleLess(self.version_max.v, g.ret.v)
                \/ TupleLess(g.ret.v, self.version_min.v)
        THEN Throw("ESClientException", s1)
        ELSE Done(s1)

_check_version(self, service) ==
    LET g == get_version(self.client, service)
        s1 == [self EXCEPT !.client = g.client]
    IN  IF g.exc # "none" THEN Throw(g.exc, s1)
        ELSE IF Truthy(self.skip_version_test) THEN Done(s1)
        ELSE IF ~TupleLess(g.ret.v, self.version_max.v)
                \/ TupleLess(g.ret.v, self.version_min.v)
        THEN Throw("ESClientException", s1)
        ELSE Done(s1)

_check_multiple_hosts(self) ==
    IF /\ "hosts" \in DOMAIN self.client_args
       /\ ~IsDict(self.client_args.hosts) /\ self.client_args.hosts.t = "list"
       /\ Len(self.client_args.hosts.v) > 1
    THEN Throw("ConfigurationError", self)
    ELSE Done(self)

_find_master(self, service) ==
    Done([self EXCEPT !.client = Called(Called(self.client, "nodes.info"), "cluster.state"),
                      !.is_master = Bool(service.local = service.master)])

\* a _check_if_master that accepts any node
_check_if_master_lax(self) == Done(self)

_check_if_master(self) ==
    IF ~Truthy(self.is_master) THEN Throw("NotMaster", self) ELSE Done(self)

\* a connect that looks for the master before it counts the hosts
connect_late_count(self, service) ==
    LET r == Then(_get_client(self), LAMBDA s1 : _check_version(s1, service))
    IN  IF r.exc # "none" \/ ~Truthy(r.self.master_only) THEN r
        ELSE Then(Then(_find_master(r.self, service), _check_multiple_hosts),
                  _check_if_master)

connect(self, service) ==
    LET r == Then(_get_client(self), LAMBDA s1 : _check_version(s1, service))
    IN  IF r.exc # "none" \/ ~Truthy(r.self.master_only) THEN r
        ELSE Then(Then(_check_multiple_hosts(r.self),
                       LAMBDA s2 : _find_master(s2, service)),
                  _check_if_master)

(***************************************************************************)
(* config.py: the merge of the configuration file with the command line.   *)
(* ctx holds params (the command-line options, None when not given) and    *)
(* what the functions put in ctx.obj: draftcfg, client_args, other_args,   *)
(* configdict.  A function gives back ctx and ES_DEFAULT as it leaves them. *)
(***************************************************************************)
\* defaults.config_settings(): the client settings but api_key
config_settings == CLIENT_SETTINGS \ {"api_key"}

\* d.pop(k, None)
Pop(d, k) == [j \in (DOMAIN d) \ {k} |-> d[j]]

NewCtx(params) ==
    [params |-> params, draftcfg |-> UNSET, client_args |-> UNSET,
     other_args |-> UNSET, configdict |-> UNSET]

get_config(c) ==
    IF Truthy(c.params.config)
    THEN LET y == get_yaml(c.params.config.v)
         IN  IF y.exc # "none" THEN [exc |-> y.exc, ctx |-> c]
             ELSE [exc |-> "none", ctx |-> [c EXCEPT !.draftcfg = y.ret]]
    ELSE [exc |-> "none", ctx |-> [c EXCEPT !.draftcfg = [config |-> EmptyDict]]]

get_arg_objects(c, esd) ==
    LET v == check_config(c.draftcfg, esd)
    IN  IF v.exc # "none" THEN [exc |-> v.exc, ctx |-> c, esd |-> v.esd]
        ELSE [exc |-> "none", esd |-> v.esd,
              ctx |-> [c EXCEPT !.draftcfg = v.config,
                                !.client_args = Update(EmptyDict, v.ret.client),
                                !.other_args = Update(EmptyDict, v.ret.other_settings)]]

get_hosts(c) ==
    IF "hosts" \in DOMAIN c.params /\ Truthy(c.params.hosts)
    THEN LET lst == c.params.hosts.v
             res == [i \in 1..Len(lst) |-> verify_url_schema(lst[i].v)]
             bad == {i \in 1..Len(lst) : res[i].exc # "none"}
         IN  IF bad # {}
             THEN Raise(res[CHOOSE i \in bad : \A j \in bad : i <= j].exc)
             ELSE Ok(List([i \in 1..Len(lst) |-> res[i].ret]))
    ELSE Ok(None)

\* a cloud_id_override that leaves the hosts of the file in place
cloud_id_override_keep(args, c) ==
    IF "cloud_id" \in DOMAIN c.params /\ Truthy(c.params.cloud_id)
    THEN [args |-> Pop(args, "hosts"), ctx |-> c]
    ELSE [args |-> args, ctx |-> c]

cloud_id_override(args, c) ==
    IF "cloud_id" \in DOMAIN c.params /\ Truthy(c.params.cloud_id)
    THEN [args |-> Pop(args, "hosts"),
          ctx |-> [c EXCEPT !.client_args = Put(c.client_args, "hosts", None)]]
    ELSE [args |-> args, ctx |-> c]

hosts_override(args, c) ==
    IF "hosts" \in DOMAIN c.params /\ Truthy(c.params.hosts)
    THEN [args |-> Pop(args, "cloud_id"),
          ctx |-> [c EXCEPT !.client_args =
                      Put(Put(c.client_args, "hosts", None), "cloud_id", None)]]
    ELSE [args |-> args, ctx |-> c]

override_client_args(c) ==
    LET keys == (DOMAIN c.params) \cap config_settings
        h == get_hosts(c)
    IN  IF "hosts" \in keys /\ h.exc # "none" THEN [exc |-> h.exc, ctx |-> c]
        ELSE
        LET args0 == [k \in {j \in keys : j = "hosts" \/ c.params[j] # None} |->
                         IF k = "hosts" THEN h.ret ELSE c.params[k]]
            o1 == cloud_id_override(args0, c)
            o2 == hosts_override(o1.args, o1.ctx)
            args == prune_nones(o2.args)
            c3 == IF DOMAIN args # {}
                  THEN [o2.ctx EXCEPT !.client_args = Update(o2.ctx.client_args, args)]
                  ELSE o2.ctx
        IN  [exc |-> "none",
             ctx |-> IF c3.client_args.hosts = None /\ c3.client_args.cloud_id = None
                     THEN [c3 EXCEPT !.client_args.hosts = List(<<Str(DefaultHost)>>)]
                     ELSE c3]

override_other_args(c) ==
    LET apikey == prune_nones([id |-> c.params.id, api_key |-> c.params.api_key,
                               token |-> c.params.api_token])
        args0 == prune_nones([master_only |-> c.params.master_only,
                              skip_version_test |-> c.params.skip_version_test,
                              username |-> c.params.username,
                              password |-> c.params.password])
        args == IF c.params.id = None /\ c.params.api_key = None /\ c.params.api_token = None
                THEN args0 ELSE Put(args0, "api_key", apikey)
    IN  [exc |-> "none",
         ctx |-> IF DOMAIN args # {}
                 THEN [c EXCEPT !.other_args = Update(c.other_args, args)]
                 ELSE c]

generate_configdict(c, esd) ==
    Only({IF g.exc # "none" THEN g
          ELSE Only({IF o.exc # "none" THEN [exc |-> o.exc, ctx |-> o.ctx, esd |-> g.esd]
                     ELSE Only({[exc |-> "none", esd |-> g.esd,
                                 ctx |-> [q EXCEPT !.configdict =
                                     [elasticsearch |->
                                         [client |-> prune_nones(q.client_args),
                                          other_settings |-> prune_nones(q.other_args)]]]] :
                                q \in {override_other_args(o.ctx).ctx}}) :
                     o \in {override_client_args(g.ctx)}}) :
          g \in {get_arg_objects(c, esd)}})

(***************************************************************************)
(* The inputs of the model                                                 *)
(***************************************************************************)
ABSENT == [t |-> "absent"]

\* the dict holding the keys of d whose value is given
Mk(d) == [k \in {j \in DOMAIN d : d[j] # ABSENT} |-> d[k]]

OtherHost == <<"http", ":", "//10.1.2.3", ":", "4567">>

UpperDefaultHost == <<"HTTP", ":", "//127.0.0.1", ":", "9200">>

HttpsNoPort == <<"https", ":", "//127.0.0.1">>

Urls ==
    {DefaultHost, OtherHost, UpperDefaultHost, HttpsNoPort,
     <<"ftp", ":", "//x">>, <<"127.0.0.1", ":", "9200">>, <<"http">>,
     <<"Https", ":", "//ES.LOCAL", ":", "9243">>,
     <<"http", ":", "//h", ":", "80", ":", "80">>, <<"http", ":", "//h", ":", "port">>,
     <<"FTP", ":", "//x", ":", "21">>, <<>>,
     <<"http", ":", "//h">>, <<"HTTP", ":", "//h">>, <<"HTTPS", ":", "//h", ":", "9243">>}

Tokens ==
    {<<"Zm9vOmJhcg==">>, <<"eDp5">>, <<"YTpiOmM=">>, <<"bm9jb2xvbg==">>, <<"Og==">>,
     <<"/w==">>, <<"invalid">>, <<"This is an invalid token">>, <<>>}

HostsOpts ==
    {ABSENT, List(<<Str(DefaultHost)>>), List(<<Str(OtherHost)>>),
     List(<<Str(UpperDefaultHost)>>), List(<<Str(HttpsNoPort)>>),
     List(<<Str(<<"ftp", ":", "//x">>)>>), List(<<Str(<<"http">>)>>), Str(DefaultHost),
     List(<<Str(DefaultHost), Str(OtherHost)>>),
     List(<<Str(DefaultHost), Str(HttpsNoPort)>>)}

CloudOpts == {ABSENT, Str(<<"foo", ":", "bar">>)}

CaOpts == {ABSENT, Str(<<"/etc/ca.pem">>), Str(<<"/missing.pem">>)}

TokenOpts ==
    {ABSENT, Str(<<"Zm9vOmJhcg==">>), Str(<<"eDp5">>), Str(<<"YTpiOmM=">>),
     Str(<<"bm9jb2xvbg==">>), Str(<<"invalid">>)}

ApiKeyBlocks ==
    {Mk([id |-> i, api_key |-> k, token |-> tk]) :
        i \in {ABSENT, S("id1")}, k \in {ABSENT, S("key1")}, tk \in TokenOpts}

\* an other_settings block; a block with no API key values has no api_key key
OtherBlock(u, p, a) ==
    Mk([username |-> u, password |-> p, api_key |-> IF a = EmptyDict THEN ABSENT ELSE a])

\* configurations that vary the credentials over the default host
AuthConfigs ==
    {[elasticsearch |->
        [client |-> Mk([hosts |-> h, api_key |-> ak, basic_auth |-> ba, bearer_auth |-> be]),
         other_settings |-> OtherBlock(u, p, a)]] :
        h \in {List(<<Str(DefaultHost)>>)},
        ak \in {ABSENT, Tuple(<<S("cid"), S("ckey")>>)},
        ba \in {ABSENT, Tuple(<<S("cuser"), S("cpw")>>)},
        be \in {ABSENT, S("bearer")},
        u \in {ABSENT, S("user")}, p \in {ABSENT, S("pw")}, a \in ApiKeyBlocks}

\* configurations that vary the hosts, the cloud_id and the CA bundle
HostConfigs ==
    {[elasticsearch |->
        [client |-> Mk([hosts |-> h, cloud_id |-> c, ca_certs |-> ca]),
         other_settings |-> OtherBlock(u, p, EmptyDict)]] :
        h \in HostsOpts, c \in CloudOpts, ca \in CaOpts,
        u \in {ABSENT, S("user")}, p \in {ABSENT, S("pw")}}

\* no configuration, blocks left out or null, and values the schema rejects
OddConfigs ==
    {None, EmptyDict, [logging |-> [loglevel |-> S("INFO")]],
     [elasticsearch |-> EmptyDict],
     [elasticsearch |-> [client |-> EmptyDict]],
     [elasticsearch |-> [client |-> [hosts |-> None, cloud_id |-> None]]],
     [elasticsearch |-> [other_settings |-> [username |-> S("user"), password |-> S("pw")]]],
     [elasticsearch |-> [other_settings |->
         [api_key |-> [id |-> None, api_key |-> None, token |-> None]],
       client |-> [hosts |-> List(<<Str(DefaultHost)>>)]]],
     [elasticsearch |-> [client |-> [api_key |-> S("plainkey")]]],
     [elasticsearch |-> [client |-> [hosts |-> List(<<>>)]]]}

ConfigDicts == AuthConfigs \cup HostConfigs \cup OddConfigs

ConfigFiles == {None, S("a.yml"), S("b.yml"), S("missing.yml")}

(***************************************************************************)
(* The state machine: one process that constructs a Builder and calls its  *)
(* methods, beside calls of the utility functions                          *)
(***************************************************************************)
NoUtil == [fn |-> "none", token |-> <<>>, url |-> <<>>, exc |-> "none", ret |-> None]

\* no second Builder has been constructed
NoBuilderB ==
    [phase |-> "new", inp |-> [configdict |-> None, configfile |-> None],
     b |-> UNSET, exc |-> "none", ops |-> <<>>, same |-> FALSE]

\* no SchemaCheck object exists
NoSchemaCheck == [t |-> "unset"]

\* no command line is being processed
NoCtx == [t |-> "unset"]

\* no Elasticsearch service is reached
NoCluster == [version |-> <<>>, local |-> "none", master |-> "none"]

\* no SecretStore is in use
NoStore == [store |-> UNSET, last |-> EmptyDict, got |-> UNSET, n |-> 0]

Init ==
    /\ phase = "new"
    /\ inp = [configdict |-> None, configfile |-> None]
    /\ b = UNSET
    /\ exc = "none"
    /\ ops = <<>>
    /\ built0 = UNSET
    /\ ES_DEFAULT = ES_DEFAULT_initial
    /\ util = NoUtil
    /\ ss = NoStore
    /\ cluster = NoCluster
    /\ ctx = NoCtx
    /\ sc = NoSchemaCheck
    /\ builderB = NoBuilderB

\* b = Builder(configdict=..., configfile=...) with arguments from the given sets
ConstructFrom(dicts, files) ==
    /\ phase = "new"
    /\ \E configdict \in dicts, configfile \in files :
          LET r == Builder__init__(configdict, configfile, ES_DEFAULT, "k1")
          IN  /\ phase' = IF r.exc = "none" THEN "built" ELSE "failed"
              /\ b' = IF r.exc = "none" THEN r.self ELSE UNSET
              /\ built0' = b'
              /\ exc' = r.exc
              /\ inp' = [configdict |-> configdict, configfile |-> configfile]
              /\ ES_DEFAULT' = r.esd
    /\ ops' = <<>>
    /\ UNCHANGED <<util, ss, cluster, ctx, sc, builderB>>

Construct == ConstructFrom(ConfigDicts, ConfigFiles)

\* b.update_config()
UpdateConfig ==
    /\ phase = "built"
    /\ Len(ops) < MaxOps
    /\ LET r == update_config(b)
       IN  b' = r.self /\ exc' = r.exc
    /\ ops' = Append(ops, "update_config")
    /\ UNCHANGED <<phase, inp, built0, ES_DEFAULT, util, ss, cluster, ctx, sc, builderB>>

\* b.validate()
Validate ==
    /\ phase = "built"
    /\ Len(ops) < MaxOps
    /\ LET r == validate(b)
       IN  b' = r.self /\ exc' = r.exc
    /\ ops' = Append(ops, "validate")
    /\ UNCHANGED <<phase, inp, built0, ES_DEFAULT, util, ss, cluster, ctx, sc, builderB>>

Next == Construct \/ UpdateConfig \/ Validate

Spec == Init /\ [][Next]_vars

\* the utility functions, applied to inputs drawn by the initial state
InitUtil ==
    /\ phase = "new"
    /\ inp = [configdict |-> None, configfile |-> None]
    /\ b = UNSET
    /\ exc = "none"
    /\ ops = <<>>
    /\ built0 = UNSET
    /\ ES_DEFAULT = ES_DEFAULT_initial
    /\ \E token \in Tokens, url \in Urls :
          util = [NoUtil EXCEPT !.token = token, !.url = url]
    /\ ss = NoStore
    /\ cluster = NoCluster
    /\ ctx = NoCtx
    /\ sc = NoSchemaCheck
    /\ builderB = NoBuilderB

CallParseApikeyToken ==
    /\ util.fn = "none"
    /\ LET r == parse_apikey_token(util.token)
       IN  util' = [util EXCEPT !.fn = "parse_apikey_token", !.exc = r.exc, !.ret = r.ret]
    /\ UNCHANGED <<builderVars, ss, cluster, ctx, sc, builderB>>

CallVerifyUrlSchema ==
    /\ util.fn = "none"
    /\ LET r == verify_url_schema(util.url)
       IN  util' = [util EXCEPT !.fn = "verify_url_schema", !.exc = r.exc, !.ret = r.ret]
    /\ UNCHANGED <<builderVars, ss, cluster, ctx, sc, builderB>>

NextUtil == CallParseApikeyToken \/ CallVerifyUrlSchema

SpecUtil == InitUtil /\ [][NextUtil]_vars

\* the version texts the service may report
Versions ==
    {<<VNum(8), VDot, VNum(0), VDot, VNum(0)>>,
     <<VNum(7), VDot, VNum(17), VDot, VNum(9)>>,
     <<VNum(8), VDot, VNum(99), VDot, VNum(99)>>,
     <<VNum(8), VDot, VNum(99), VDot, VNum(98)>>,
     <<VNum(9), VDot, VNum(0), VDot, VNum(0)>>,
     <<VNum(8), VDot, VNum(1), VDot, VNum(2), VDash, VWord>>,
     <<VNum(8), VDot, VNum(1), VDot, VNum(2), VDot, VNum(3)>>,
     <<VNum(8), VDot, VWord, VDot, VNum(0)>>,
     <<VNum(8), VDot, VNum(1)>>}

Services ==
    {[version |-> v, local |-> "node1", master |-> m] :
        v \in Versions, m \in {"node1", "node2"}}

\* the version bounds a caller may set in place of the defaults
VersionBounds ==
    {[lo |-> Tuple(<<7, 17, 9>>), hi |-> Tuple(<<8, 0, 0>>)],
     [lo |-> Tuple(<<8, 1, 2>>), hi |-> Tuple(<<8, 1, 3>>)]}

\* configurations that vary the number of hosts, master_only and skip_version_test
ConnConfigs ==
    {[elasticsearch |->
        [client |-> [hosts |-> h],
         other_settings |-> Mk([master_only |-> m, skip_version_test |-> k])]] :
        h \in {List(<<Str(DefaultHost)>>), List(<<Str(DefaultHost), Str(OtherHost)>>)},
        m \in {ABSENT, Bool(TRUE), Bool(FALSE)},
        k \in {ABSENT, Bool(TRUE), Bool(FALSE)}}

InitConnect ==
    /\ phase = "new"
    /\ inp = [configdict |-> None, configfile |-> None]
    /\ b = UNSET
    /\ exc = "none"
    /\ ops = <<>>
    /\ built0 = UNSET
    /\ ES_DEFAULT = ES_DEFAULT_initial
    /\ util = NoUtil
    /\ ss = NoStore
    /\ cluster \in Services
    /\ ctx = NoCtx
    /\ sc = NoSchemaCheck
    /\ builderB = NoBuilderB

ConstructForConnect == ConstructFrom(ConnConfigs, {None})

\* b.version_min = lo; b.version_max = hi
SetVersionBounds ==
    /\ phase = "built" /\ ops = <<>>
    /\ \E vb \in VersionBounds :
          b' = [b EXCEPT !.version_min = vb.lo, !.version_max = vb.hi]
    /\ UNCHANGED <<phase, inp, exc, ops, built0, ES_DEFAULT, util, ss, cluster, ctx, sc, builderB>>

\* b.connect()
Connect ==
    /\ phase = "built"
    /\ Len(ops) < MaxOps
    /\ LET r == connect(b, cluster)
       IN  b' = r.self /\ exc' = r.exc
    /\ ops' = Append(ops, "connect")
    /\ UNCHANGED <<phase, inp, built0, ES_DEFAULT, util, ss, cluster, ctx, sc, builderB>>

NextConnect == ConstructForConnect \/ SetVersionBounds \/ Connect

SpecConnect == InitConnect /\ [][NextConnect]_vars

\* the command lines of the model
CliHosts ==
    {Tuple(<<>>), Tuple(<<Str(OtherHost)>>), Tuple(<<Str(UpperDefaultHost)>>),
     Tuple(<<Str(<<"ftp", ":", "//x">>)>>)}

CliParams ==
    {[config |-> f, hosts |-> h, cloud_id |-> cl, ca_certs |-> ca,
      username |-> u, password |-> IF u = None THEN None ELSE S("clipw"),
      id |-> i, api_key |-> None, api_token |-> tk,
      master_only |-> m, skip_version_test |-> None] :
        i \in {None, S("cliid")},
        f \in {None, S("a.yml"), S("b.yml")},
        h \in CliHosts,
        cl \in {None, Str(<<"cli", ":", "cloud">>)},
        ca \in {None, Str(<<"/etc/ca.pem">>)},
        u \in {None, S("cliuser")},
        tk \in {None, Str(<<"Zm9vOmJhcg==">>)},
        m \in {None, Bool(TRUE)}}

\* a command was invoked with some options
InitCli ==
    /\ phase = "new"
    /\ inp = [configdict |-> None, configfile |-> None]
    /\ b = UNSET
    /\ exc = "none"
    /\ ops = <<>>
    /\ built0 = UNSET
    /\ ES_DEFAULT = ES_DEFAULT_initial
    /\ util = NoUtil
    /\ ss = NoStore
    /\ cluster = NoCluster
    /\ \E params \in CliParams : ctx = [step |-> "start", exc |-> "none", c |-> NewCtx(params)]
    /\ sc = NoSchemaCheck
    /\ builderB = NoBuilderB

\* get_config(ctx)
GetConfig ==
    /\ ctx.step = "start"
    /\ LET r == get_config(ctx.c)
       IN  ctx' = [step |-> IF r.exc = "none" THEN "draft" ELSE "failed",
                   exc |-> r.exc, c |-> r.ctx]
    /\ UNCHANGED <<builderVars, util, ss, cluster, sc, builderB>>

\* generate_configdict(ctx)
GenerateConfigdict ==
    /\ ctx.step = "draft"
    /\ LET r == generate_configdict(ctx.c, ES_DEFAULT)
       IN  /\ ctx' = [step |-> IF r.exc = "none" THEN "merged" ELSE "failed",
                      exc |-> r.exc, c |-> r.ctx]
           /\ ES_DEFAULT' = r.esd
    /\ UNCHANGED <<phase, inp, b, exc, ops, built0, util, ss, cluster, sc, builderB>>

NextCli == GetConfig \/ GenerateConfigdict

SpecCli == InitCli /\ [][NextCli]_vars

\* no function has been called yet
InitIdle ==
    /\ phase = "new"
    /\ inp = [configdict |-> None, configfile |-> None]
    /\ b = UNSET
    /\ exc = "none"
    /\ ops = <<>>
    /\ built0 = UNSET
    /\ ES_DEFAULT = ES_DEFAULT_initial
    /\ util = NoUtil
    /\ ss = NoStore
    /\ cluster = NoCluster
    /\ ctx = NoCtx
    /\ sc = NoSchemaCheck
    /\ builderB = NoBuilderB

\* the names a placeholder may use, the environments, and the defaults it may give
EnvNames == {"HOST", "PORT", "ES_URL"}

EnvValues == {<<"127.0.0.1">>, <<"https", ":", "//es.local", ":", "9243">>}

Environs ==
    {[n \in names |-> v[n]] : names \in SUBSET {"HOST", "PORT"}, v \in [{"HOST", "PORT"} -> EnvValues]}

EnvDefaults ==
    {<<>>, <<"localhost">>, <<"9200">>, <<"http", ":", "//localhost", ":", "9200">>,
     <<"localhost", ":", "9200">>}

\* the scalars ${NAME} and ${NAME:default}
Placeholders ==
    {<<"${", n, "}">> : n \in EnvNames}
    \cup {<<"${", n, ":">> \o d \o <<"}">> : n \in EnvNames, d \in EnvDefaults}

\* yaml.load() meets a scalar of the form ${...}
CallSingleConstructor ==
    /\ util.fn = "none"
    /\ \E value \in Placeholders, environ \in Environs :
          LET r == single_constructor(value, environ)
          IN  util' = [fn |-> "single_constructor", token |-> <<>>, url |-> <<>>,
                       value |-> value, environ |-> environ, exc |-> r.exc, ret |-> r.ret]
    /\ UNCHANGED <<builderVars, ss, cluster, ctx, sc, builderB>>

NextYaml == CallSingleConstructor

SpecYaml == InitIdle /\ [][NextYaml]_vars

\* a configuration whose sensitive fields are those of present, each holding secret
FilterInput(present, secret) ==
    LET f(k) == IF k \in present THEN S(secret) ELSE ABSENT
    IN  [elasticsearch |->
            [client |-> Mk([hosts |-> List(<<Str(DefaultHost)>>),
                            bearer_auth |-> f("bearer_auth"),
                            basic_auth |-> IF "basic_auth" \in present
                                           THEN Tuple(<<S("user"), S(secret)>>) ELSE ABSENT]),
             other_settings |->
                Mk([username |-> S("user"), password |-> f("password"),
                    api_key |-> Mk([id |-> f("id"), api_key |-> f("api_key"),
                                    token |-> f("token")])])]]

FilterFields == {"password", "basic_auth", "bearer_auth", "id", "api_key", "token"}

FilterSecrets == {"s1", "s2"}

\* password_filter(data), and password_filter(twin) for a twin that differs
\* from data in its sensitive values at most
CallPasswordFilter ==
    /\ util.fn = "none"
    /\ \E present \in SUBSET FilterFields, s1 \in FilterSecrets, s2 \in FilterSecrets :
          LET r == password_filter(FilterInput(present, s1))
              r2 == password_filter(FilterInput(present, s2))
          IN  util' = [fn |-> "password_filter", exc |-> "none", token |-> <<>>, url |-> <<>>,
                       present |-> present,
                       given |-> FilterInput(present, s1), data |-> r.data, ret |-> r.ret,
                       twin |-> FilterInput(present, s2), twin_ret |-> r2.ret]
    /\ UNCHANGED <<builderVars, ss, cluster, ctx, sc, builderB>>

NextFilter == CallPasswordFilter

SpecFilter == InitIdle /\ [][NextFilter]_vars

\* the structures handed to SchemaCheck: an elasticsearch block, sound or not
SchemaInputs ==
    {Mk([client |-> c, other_settings |-> o, logging |-> x]) :
        c \in {ABSENT, EmptyDict, [port |-> Int_(70000)], [max_retries |-> Int_(1000)],
               [max_retries |-> Int_(3)], [hosts |-> List(<<Str(DefaultHost)>>)],
               [hosts |-> Int_(5)],
               [port |-> Int_(70000), bearer_auth |-> S("bearer1")],
               [port |-> Int_(70000), bearer_auth |-> S("bearer2")]},
        o \in {ABSENT, EmptyDict, [username |-> Int_(1)], [api_key |-> [id |-> Int_(5)]],
               [api_key |-> [tokn |-> S("x")]], [master_only |-> Bool(TRUE)],
               [username |-> Int_(1), password |-> S("pw1")],
               [username |-> Int_(1), password |-> S("pw2")],
               [api_key |-> [id |-> Int_(5), api_key |-> S("key1")]],
               [api_key |-> [id |-> Int_(5), api_key |-> S("key2")]]},
        x \in {ABSENT, S("debug")}}

\* check = SchemaCheck(config, config_schema(), ...)
InitSchema ==
    /\ phase = "new"
    /\ inp = [configdict |-> None, configfile |-> None]
    /\ b = UNSET
    /\ exc = "none"
    /\ ops = <<>>
    /\ built0 = UNSET
    /\ ES_DEFAULT = ES_DEFAULT_initial
    /\ util = NoUtil
    /\ ss = NoStore
    /\ cluster = NoCluster
    /\ ctx = NoCtx
    /\ \E config \in SchemaInputs : sc = SchemaCheck__init__(config)
    /\ builderB = NoBuilderB

\* check.result(); of several errors the schema may report any one first
CallResult ==
    /\ ~sc.called
    /\ \/ SchemaErrors(sc.config) = {} /\ sc' = result(sc, sc.error)
       \/ \E error \in SchemaErrors(sc.config) : sc' = result(sc, error)
    /\ UNCHANGED <<builderVars, util, ss, cluster, ctx, builderB>>

NextSchema == CallResult

SpecSchema == InitSchema /\ [][NextSchema]_vars

\* a Builder that has not been constructed, beside the other processes
IdleBuilder ==
    /\ phase = "new"
    /\ inp = [configdict |-> None, configfile |-> None]
    /\ b = UNSET
    /\ exc = "none"
    /\ ops = <<>>
    /\ built0 = UNSET
    /\ ES_DEFAULT = ES_DEFAULT_initial

\* the names and the values given to store_secret
StoreNames == {"api_key", "password"}

StoreValues == {None, S("pw"), Tuple(<<S("id"), S("key")>>)}

\* store = SecretStore()
InitStore ==
    /\ IdleBuilder
    /\ util = NoUtil
    /\ ss = [NoStore EXCEPT !.store = SecretStore("k1")]
    /\ cluster = NoCluster
    /\ ctx = NoCtx
    /\ sc = NoSchemaCheck
    /\ builderB = NoBuilderB

\* store.store_secret(name, value); last keeps the value handed in
CallStoreSecret ==
    /\ ss.n < MaxStoreOps
    /\ \E name \in StoreNames, value \in StoreValues :
          ss' = [store |-> store_secret(ss.store, name, value),
                 last |-> Put(ss.last, name, value),
                 got |-> UNSET,
                 n |-> ss.n + 1]
    /\ UNCHANGED <<builderVars, util, cluster, ctx, sc, builderB>>

\* store.get_secret(name)
CallGetSecret ==
    /\ ss.n < MaxStoreOps
    /\ \E name \in StoreNames :
          ss' = [ss EXCEPT !.got = [name |-> name, ret |-> get_secret(ss.store, name)],
                           !.n = ss.n + 1]
    /\ UNCHANGED <<builderVars, util, cluster, ctx, sc, builderB>>

\* del b: the process goes on to construct another Builder; ES_DEFAULT stays
Discard ==
    /\ phase \in {"built", "failed"}
    /\ phase' = "new"
    /\ inp' = [configdict |-> None, configfile |-> None]
    /\ b' = UNSET
    /\ exc' = "none"
    /\ ops' = <<>>
    /\ built0' = UNSET
    /\ UNCHANGED <<ES_DEFAULT, util, ss, cluster, ctx, sc, builderB>>

\* check_config(config) called by other code of the process
CallCheckConfig ==
    /\ phase = "new"
    /\ \E config \in ConfigDicts \cup {List(<<>>)} :
          ES_DEFAULT' = check_config(config, ES_DEFAULT).esd
    /\ UNCHANGED <<phase, inp, b, exc, ops, built0, util, ss, cluster, ctx, sc, builderB>>

NextProcess == Construct \/ Discard \/ CallCheckConfig

\* one process constructing Builders one after another
SpecProcess == Init /\ [][NextProcess]_vars

\* the configurations two Builders of one process are given
TwoDicts ==
    {None,
     [elasticsearch |->
        [client |-> [hosts |-> List(<<Str(OtherHost)>>), bearer_auth |-> None],
         other_settings |-> [username |-> S("user"), password |-> S("pw")]]],
     [elasticsearch |->
        [client |-> [hosts |-> List(<<Str(UpperDefaultHost)>>),
                     api_key |-> Tuple(<<S("cid"), S("ckey")>>)]]],
     [elasticsearch |-> [other_settings |-> [api_key |-> [id |-> S("fid"), api_key |-> None]]]]}

TwoFiles == {None, S("b.yml")}

\* Builder A of the two: a = Builder(configdict=..., configfile=...)
ConstructA == ConstructFrom(TwoDicts, TwoFiles) /\ UNCHANGED builderB

\* a.update_config()
UpdateConfigA == UpdateConfig /\ UNCHANGED builderB

\* a.validate()
ValidateA == Validate /\ UNCHANGED builderB

\* a._secrets.store_secret(name, value)
StoreSecretA ==
    /\ phase = "built"
    /\ Len(ops) < MaxOps
    /\ \E name \in StoreNames, value \in StoreValues :
          b' = [b EXCEPT !.secrets = store_secret(b.secrets, name, value)]
    /\ ops' = Append(ops, "store_secret")
    /\ UNCHANGED <<phase, inp, exc, built0, ES_DEFAULT, util, ss, cluster, ctx, sc, builderB>>

\* the dict object Builder A was given, as A's construction left it
DictOfA == Builder__init__(inp.configdict, inp.configfile, ES_DEFAULT, "k1").configdict

\* Builder B: constructed from a dict of its own, or from the very dict object
\* that Builder A was given; inp records the dict as the caller first wrote it
ConstructB ==
    /\ builderB.phase = "new"
    /\ \E same \in {FALSE, phase # "new" /\ IsDict(inp.configdict)},
          own \in TwoDicts, configfile \in TwoFiles :
          \E r \in {Builder__init__(IF same THEN DictOfA ELSE own, configfile, ES_DEFAULT, "k2")} :
              /\ builderB' = [phase |-> IF r.exc = "none" THEN "built" ELSE "failed",
                              inp |-> [configdict |-> IF same THEN inp.configdict ELSE own,
                                       configfile |-> configfile],
                              b |-> IF r.exc = "none" THEN r.self ELSE UNSET,
                              exc |-> r.exc, ops |-> <<>>, same |-> same]
              /\ ES_DEFAULT' = r.esd
    /\ UNCHANGED <<phase, inp, b, exc, ops, built0, util, ss, cluster, ctx, sc>>

\* one method of a Builder, by name
CallMethod(self, op) ==
    CASE op = "update_config" -> update_config(self)
      [] op = "validate" -> validate(self)

\* b.update_config() or b.validate() on Builder B
CallMethodB ==
    /\ builderB.phase = "built"
    /\ Len(builderB.ops) < MaxOps
    /\ \E op \in {"update_config", "validate"} :
          \E r \in {CallMethod(builderB.b, op)} :
              builderB' = [builderB EXCEPT !.b = r.self, !.exc = r.exc,
                                           !.ops = Append(builderB.ops, op)]
    /\ UNCHANGED <<builderVars, util, ss, cluster, ctx, sc>>

NextTwo == ConstructA \/ UpdateConfigA \/ ValidateA \/ StoreSecretA \/ ConstructB \/ CallMethodB

\* one process holding two Builders, their operations interleaved
SpecTwo == Init /\ [][NextTwo]_vars

\* b = Builder(configdict=...) for a Builder whose credentials are then rewritten
ConstructForAuth == ConstructFrom(AuthConfigs, {None})

\* b.other_args.username = ...; b.other_args.password = ...
WriteOtherArgs ==
    /\ phase = "built"
    /\ Len(ops) < MaxOps
    /\ \E username \in {None, S("test")}, password \in {None, S("testpw")} :
          b' = [b EXCEPT !.other_args.username = username, !.other_args.password = password]
    /\ ops' = Append(ops, "write_other_args")
    /\ UNCHANGED <<phase, inp, exc, built0, ES_DEFAULT, util, ss, cluster, ctx, sc, builderB>>

\* b._check_basic_auth()
CallCheckBasicAuth ==
    /\ phase = "built"
    /\ Len(ops) < MaxOps
    /\ \E r \in {_check_basic_auth(b)} : b' = r.self /\ exc' = r.exc
    /\ ops' = Append(ops, "_check_basic_auth")
    /\ UNCHANGED <<phase, inp, built0, ES_DEFAULT, util, ss, cluster, ctx, sc, builderB>>

NextAuth == ConstructForAuth \/ WriteOtherArgs \/ CallCheckBasicAuth

\* a Builder whose other_args are written and whose credentials are judged
SpecAuth == Init /\ [][NextAuth]_vars

\* version texts that open with three numbers: what may follow them
VersionTails ==
    {<<>>, <<VDot, VWord>>, <<VDot, VNum(3)>>, <<VDot, VNum(3), VDot, VNum(4)>>,
     <<VDot, VNum(3), VDot, VWord>>}

VersionTexts ==
    {<<VNum(x), VDot, VNum(y), VDot, VNum(z)>> \o tail \o suffix :
        x \in {7, 8}, y \in {0, 17}, z \in {0, 9, 99},
        tail \in VersionTails, suffix \in {<<>>, <<VDash, VWord>>}}

\* get_version(client) for a client whose info() reports some version text
CallGetVersion ==
    /\ util.fn = "none"
    /\ \E text \in VersionTexts \cup Versions :
          \E r \in {get_version(Elasticsearch([hosts |-> Str(DefaultHost)]),
                                [version |-> text])} :
              util' = [fn |-> "get_version", token |-> <<>>, url |-> <<>>,
                       version |-> text, exc |-> r.exc, ret |-> r.ret]
    /\ UNCHANGED <<builderVars, ss, cluster, ctx, sc, builderB>>

NextVersion == CallGetVersion

SpecVersion == InitIdle /\ [][NextVersion]_vars

NextStore == CallStoreSecret \/ CallGetSecret

SpecStore == InitStore /\ [][NextStore]_vars

(***************************************************************************)
(* What the claims speak of                                                *)
(***************************************************************************)
\* a Builder has just been constructed and no method was called on it since
Fresh == phase = "built" /\ ops = <<>>

\* the construction has ended, with a Builder or with an exception
Constructed == phase \in {"built", "failed"} /\ ops = <<>>

\* b._secrets.get_secret(name)
Secret(name) == get_secret(b.secrets, name)

SecretNames == {"basic_auth", "api_key", "bearer_auth", "password"}

\* the structure process_config_opts hands to check_config
SrcRaw ==
    IF Truthy(inp.configfile) THEN get_yaml(inp.configfile.v).ret
    ELSE IF Truthy(inp.configdict) THEN inp.configdict
    ELSE ES_DEFAULT_initial.elasticsearch

\* its elasticsearch block, the one of ES_DEFAULT when it has none
SrcEs ==
    IF IsDict(SrcRaw) /\ "elasticsearch" \in DOMAIN SrcRaw
    THEN SrcRaw.elasticsearch ELSE ES_DEFAULT_initial.elasticsearch

SrcClient == IF "client" \in DOMAIN SrcEs THEN SrcEs.client ELSE EmptyDict

SrcOther == IF "other_settings" \in DOMAIN SrcEs THEN SrcEs.other_settings ELSE EmptyDict

SrcApiKey == IF "api_key" \in DOMAIN SrcOther THEN SrcOther.api_key ELSE EmptyDict

\* the key k is given a value that is not null
Supplied(d, k) == k \in DOMAIN d /\ d[k] # None

Drop(d, keys) == [k \in (DOMAIN d) \ keys |-> d[k]]

\* the configuration file, when one is named, can be loaded
SourceLoads == Truthy(inp.configfile) => get_yaml(inp.configfile.v).exc = "none"

\* the construction from the given client and other_settings blocks in place of
\* the ones of the source
RunWith(client, other) ==
    IF SourceLoads
    THEN Builder__init__([elasticsearch |-> [client |-> client, other_settings |-> other]],
                         None, ES_DEFAULT_initial, "k1")
    ELSE [exc |-> get_yaml(inp.configfile.v).exc, self |-> UNSET,
          esd |-> ES_DEFAULT_initial, configdict |-> inp.configdict]

\* two values with the same items, a tuple and a list of them alike
SameItems(x, y) == JsonDumps(x) = JsonDumps(y)

(***************************************************************************)
(* The claims                                                              *)
(***************************************************************************)
\* C1: when Builder is constructed with both a non-empty configdict and a
\* configfile, the construction ends exactly as the construction from the
\* configdict alone ends: same exception, same client_args, other_args, config
\* and secret store; the file has no influence.
C1_ConfigdictTakesPrecedence ==
    (Constructed /\ Truthy(inp.configdict) /\ Truthy(inp.configfile)) =>
        LET r == Builder__init__(inp.configdict, None, ES_DEFAULT_initial, "k1")
        IN  exc = r.exc /\ (r.exc = "none" => b = r.self)

\* other_settings supplies a credential of its own for the slot named field
Competing(field) ==
    CASE field = "basic_auth" -> Supplied(SrcOther, "username") /\ Supplied(SrcOther, "password")
      [] field = "api_key" -> \E k \in {"id", "api_key", "token"} : Supplied(SrcApiKey, k)
      [] OTHER -> FALSE

\* C2: after a successful construction basic_auth, api_key and bearer_auth of
\* client_args and password of other_args are None, so are the same fields of
\* the validated config, and a value supplied for one of them (other_settings
\* supplying no credential of its own for that slot) is what the secret store
\* returns under the same name.
C2_SecretsMigratedAndRetrievable ==
    Fresh =>
        /\ \A f \in {"basic_auth", "api_key", "bearer_auth"} :
              /\ b.client_args[f] = None
              /\ Get(b.config.client, f) = None
              /\ (Supplied(SrcClient, f) /\ ~Competing(f)) => SameItems(Secret(f), SrcClient[f])
        /\ b.other_args.password = None
        /\ Get(b.config.other_settings, "password") = None
        /\ Supplied(SrcOther, "password") => Secret("password") = SrcOther.password

\* C3: after a successful construction exactly one of client_args.hosts and
\* client_args.cloud_id is non-null, and an input that supplies neither ends
\* with hosts equal to the default host list.
C3_ExactlyOneOfHostsAndCloudId ==
    Fresh =>
        /\ (b.client_args.hosts # None) # (b.client_args.cloud_id # None)
        /\ (~Supplied(SrcClient, "hosts") /\ ~Supplied(SrcClient, "cloud_id"))
              => b.client_args.hosts = List(<<Str(DefaultHost)>>)

\* the construction from the same configuration with no cloud_id
NoCloud == RunWith(Drop(SrcClient, {"cloud_id"}), SrcOther)

\* the hosts value is the single default host, as written
ExactDefault(h) == h \in {List(<<Str(DefaultHost)>>), Str(DefaultHost)}

\* the configured hosts, each as verify_url_schema returns it
NormHosts ==
    LET lst == ensure_list(SrcClient.hosts).v
    IN  List([i \in 1..Len(lst) |-> verify_url_schema(lst[i].v).ret])

NoBasicAuth == RunWith(SrcClient, Drop(SrcOther, {"username", "password"}))

\* C5: the configuration being acceptable without them, a construction with
\* exactly one of other_settings.username and other_settings.password raises
\* ConfigurationError; with both it succeeds and the basic_auth secret is the
\* pair (username, password); with neither it succeeds and the basic_auth
\* secret is only what the client block itself supplied, if anything.
C5_BasicAuthCompleteness ==
    (Constructed /\ NoBasicAuth.exc = "none") =>
        LET u == Supplied(SrcOther, "username")
            p == Supplied(SrcOther, "password")
        IN  /\ (u # p) => exc = "ConfigurationError"
            /\ (u /\ p) =>
                  /\ phase = "built"
                  /\ SameItems(Secret("basic_auth"),
                               Tuple(<<SrcOther.username, SrcOther.password>>))
            /\ (~u /\ ~p) =>
                  /\ phase = "built"
                  /\ SameItems(Secret("basic_auth"), Get(SrcClient, "basic_auth"))

\* a username and a password were given and make the basic_auth secret
C5_Witness ==
    /\ Fresh
    /\ Supplied(SrcOther, "username") /\ Supplied(SrcOther, "password")
    /\ Secret("basic_auth") = List(<<SrcOther.username, SrcOther.password>>)

\* C6: after a successful construction, update_config() followed by validate()
\* does not raise and leaves the basic_auth, api_key and bearer_auth secrets
\* with the values the construction gave them.
C6_RerunIsNoOp ==
    (phase = "built" /\ ops = <<"update_config", "validate">>) =>
        /\ exc = "none"
        /\ \A n \in {"basic_auth", "api_key", "bearer_auth"} :
              Secret(n) = get_secret(built0.secrets, n)

\* C7: update_config() on a constructed Builder does not raise and leaves the
\* secret store with the same names and the same decrypted value for each.
C7_UpdateConfigKeepsSecrets ==
    [][UpdateConfig =>
          /\ exc' = "none"
          /\ DOMAIN b'.secrets.secrets = DOMAIN b.secrets.secrets
          /\ \A n \in SecretNames : get_secret(b'.secrets, n) = get_secret(b.secrets, n)]_vars

\* update_config() ran on a Builder whose store holds resolved credentials
C7_Witness ==
    /\ phase = "built"
    /\ ops = <<"update_config">>
    /\ Secret("password") # None
    /\ Secret("basic_auth") # None
    /\ Secret("bearer_auth") # None

\* what the text of a token of the form id:key decodes to
TokenPair(token) ==
    CASE token = <<"Zm9vOmJhcg==">> -> Tuple(<<S("foo"), S("bar")>>)
      [] token = <<"eDp5">> -> Tuple(<<S("x"), S("y")>>)
      [] OTHER -> None

Colons(text) == Cardinality({i \in 1..Len(text) : text[i] = ":"})

\* C9: parse_apikey_token raises ConfigurationError for a token that cannot be
\* decoded and for one whose text has no ":" or more than one, and returns a
\* pair only for a text with exactly one ":".
C9_ParseApikeyTokenRejects ==
    util.fn = "parse_apikey_token" =>
        LET d == B64Decode(util.token)
            one == IF d.exc = "none" THEN Colons(d.ret.v) = 1 ELSE FALSE
        IN  /\ ~one => util.exc = "ConfigurationError"
            /\ util.exc = "none" => one

\* the construction from the same configuration with no id and no api_key subkey
NoApiKeyPair ==
    RunWith(SrcClient,
            Put(SrcOther, "api_key", Drop(SrcApiKey, {"id", "api_key"})))

C11_GetReturnsLastStored ==
    (ss.got # UNSET) =>
        ss.got.ret = IF ss.got.name \in DOMAIN ss.last
                     THEN ss.last[ss.got.name] ELSE None

\* no configuration is supplied: no configfile, and no configdict, an empty one
\* or one with no 'elasticsearch' key
NoConfigSupplied ==
    /\ ~Truthy(inp.configfile)
    /\ \/ ~Truthy(inp.configdict)
       \/ (IsDict(inp.configdict) /\ "elasticsearch" \notin DOMAIN inp.configdict)

\* C12: a construction with no configuration supplied succeeds with
\* client_args.hosts equal to ["http://127.0.0.1:9200"], whatever Builder
\* constructions and check_config calls the process made before.
C12_DefaultHostsSurvive ==
    (Constructed /\ NoConfigSupplied) =>
        /\ phase = "built"
        /\ b.client_args.hosts = List(<<Str(DefaultHost)>>)

\* a default construction made after ES_DEFAULT was written to by earlier calls
C12_Witness ==
    /\ Fresh /\ NoConfigSupplied
    /\ ES_DEFAULT # ES_DEFAULT_initial
    /\ IsDict(inp.configdict) /\ inp.configdict # EmptyDict
    /\ b.client_args.hosts = List(<<Str(DefaultHost)>>)

\* the scheme chunks that spell http and https in some letter case
IsHttp(c) == c \in {"http", "HTTP"}

IsHttps(c) == c \in {"https", "HTTPS", "Https"}

\* the text has the form scheme://host or scheme://host:port
UrlForm(u) ==
    /\ Len(u) \in {3, 5}
    /\ u[1] # ":" /\ u[2] = ":" /\ u[3] # ":"
    /\ Len(u) = 5 => (u[4] = ":" /\ u[5] # ":")

\* C13: for a URL scheme://host or scheme://host:port whose scheme is http or
\* https in any letter case, verify_url_schema returns scheme://host:port with
\* the scheme in lower case, the port as given, or 80 for http and 443 for
\* https when none is given; for such a URL with any other scheme, and for any
\* URL with more than two colons, it raises ConfigurationError.
C13_VerifyUrlSchemaNormalises ==
    util.fn = "verify_url_schema" =>
        LET u == util.url
        IN  /\ (UrlForm(u) /\ (IsHttp(u[1]) \/ IsHttps(u[1]))) =>
                  /\ util.exc = "none"
                  /\ util.ret.t = "str"
                  /\ Len(util.ret.v) = 5
                  /\ util.ret.v[1] = (IF IsHttp(u[1]) THEN "http" ELSE "https")
                  /\ util.ret.v[2] = ":" /\ util.ret.v[4] = ":"
                  /\ Lower(<<util.ret.v[3]>>) = Lower(<<u[3]>>)
                  /\ util.ret.v[5] = (IF Len(u) = 5 THEN u[5]
                                      ELSE IF IsHttp(u[1]) THEN "80" ELSE "443")
            /\ (UrlForm(u) /\ ~IsHttp(u[1]) /\ ~IsHttps(u[1])) =>
                  util.exc = "ConfigurationError"
            /\ Colons(u) > 2 => util.exc = "ConfigurationError"

\* an upper-case http URL without a port came back in lower case with port 80
C13_Witness ==
    /\ util.fn = "verify_url_schema"
    /\ util.url = <<"HTTP", ":", "//h">>
    /\ util.ret = Str(<<"http", ":", "//h", ":", "80">>)

\* connect() was called once on the constructed Builder
Connected == phase = "built" /\ ops = <<"connect">>

\* the queries of node identity made on the handle by the last connect()
IdentityQueries ==
    {i \in 1..Len(b.client.calls) : b.client.calls[i] \in {"nodes.info", "cluster.state"}}

\* the version check of connect() lets the service through
VersionCheckPasses == _check_version(b, cluster).exc = "none"

\* C14: with master_only true and more than one host in client_args.hosts,
\* connect() makes no query of the local node's identity or of the elected
\* master, and, the version check letting the service through, it raises
\* ConfigurationError.
C14_MultipleHostsRaiseBeforeIdentity ==
    (Connected /\ Truthy(b.master_only) /\ Len(b.client_args.hosts.v) > 1) =>
        /\ IdentityQueries = {}
        /\ VersionCheckPasses => exc = "ConfigurationError"

\* connect() on two hosts with master_only raised ConfigurationError after info() alone
C14_Witness ==
    /\ Connected /\ b.master_only = Bool(TRUE)
    /\ Len(b.client_args.hosts.v) = 2
    /\ exc = "ConfigurationError"
    /\ b.client.calls = <<"info">>

\* C15: with master_only true and a single configured host, the version check
\* letting the service through, connect() raises NotMaster exactly when the
\* local node's id differs from the elected master's id and otherwise returns
\* with is_master true; with master_only false, connect() never raises
\* NotMaster and makes no query of node identity.
C15_NotMasterExactlyWhenIdsDiffer ==
    Connected =>
        /\ (Truthy(b.master_only) /\ Len(b.client_args.hosts.v) = 1 /\ VersionCheckPasses) =>
              /\ (exc = "NotMaster") <=> (cluster.local # cluster.master)
              /\ (cluster.local = cluster.master) =>
                    (exc = "none" /\ b.is_master = Bool(TRUE))
        /\ ~Truthy(b.master_only) =>
              (exc # "NotMaster" /\ IdentityQueries = {})

\* connect() with master_only on one host that is not the master raised NotMaster
C15_Witness ==
    /\ Connected /\ b.master_only = Bool(TRUE)
    /\ Len(b.client_args.hosts.v) = 1
    /\ cluster.local # cluster.master
    /\ exc = "NotMaster"
    /\ b.client.calls = <<"info", "nodes.info", "cluster.state">>

\* x < y on triples of integers, in lexicographic order
Lex3Less(x, y) ==
    \/ x[1] < y[1]
    \/ (x[1] = y[1] /\ x[2] < y[2])
    \/ (x[1] = y[1] /\ x[2] = y[2] /\ x[3] < y[3])

\* the version get_version detects on the service
Detected == get_version(b.client, cluster)

C17_SkipMakesNoInfoCall ==
    (Connected /\ Truthy(b.skip_version_test)) =>
        /\ \A i \in 1..Len(b.client.calls) : b.client.calls[i] # "info"
        /\ exc \notin {"ValueError", "ESClientException"}

\* generate_configdict has produced the merged configdict
Merged == ctx # NoCtx /\ ctx.step = "merged"

MergedClient == ctx.c.configdict.elasticsearch.client

\* the hosts given at the command line, each as verify_url_schema returns it
CliHostsNormalised ==
    LET lst == ctx.c.params.hosts.v
    IN  List([i \in 1..Len(lst) |-> verify_url_schema(lst[i].v).ret])

\* C18: when the command line supplies a non-empty hosts list, the merged
\* configdict's client.hosts is that list, each host normalised by
\* verify_url_schema, for every configuration file and every combination of
\* the other command-line options.
C18_CliHostsWin ==
    (Merged /\ Truthy(ctx.c.params.hosts)) =>
        /\ "hosts" \in DOMAIN MergedClient
        /\ MergedClient.hosts = CliHostsNormalised

\* C19: in the merged configdict, when the command line supplies cloud_id and
\* no hosts, client has no hosts and its cloud_id is the command line's; when
\* it supplies hosts and no cloud_id, client has no cloud_id and its hosts are
\* the command line's, normalised.
C19_CliClearsTheOther ==
    Merged =>
        /\ (Truthy(ctx.c.params.cloud_id) /\ ~Truthy(ctx.c.params.hosts)) =>
              /\ "hosts" \notin DOMAIN MergedClient
              /\ "cloud_id" \in DOMAIN MergedClient
              /\ MergedClient.cloud_id = ctx.c.params.cloud_id
        /\ (Truthy(ctx.c.params.hosts) /\ ~Truthy(ctx.c.params.cloud_id)) =>
              /\ "cloud_id" \notin DOMAIN MergedClient
              /\ "hosts" \in DOMAIN MergedClient
              /\ MergedClient.hosts = CliHostsNormalised

\* a cloud_id of the command line replaced the hosts of the configuration file
C19_Witness ==
    /\ Merged
    /\ ctx.c.params.config = S("a.yml")
    /\ Truthy(ctx.c.params.cloud_id) /\ ~Truthy(ctx.c.params.hosts)
    /\ "hosts" \notin DOMAIN MergedClient
    /\ MergedClient.cloud_id = ctx.c.params.cloud_id

RECURSIVE Walk(_, _)
\* the value found in data along the keys of path
Walk(data, path) == IF path = <<>> THEN data ELSE Walk(data[Head(path)], Tail(path))

\* C20: when result() raises FailedValidation for an error at a field of the
\* input, the bad value it reports is the value found by walking the input
\* along the whole key path of that field, not an enclosing block.
C20_BadValueIsTheOffendingField ==
    (sc # NoSchemaCheck /\ sc.called /\ sc.exc = "FailedValidation") =>
        sc.badvalue = Walk(sc.config, sc.error)

\* the fields the property calls sensitive
SensitiveFields == {"password", "basic_auth", "bearer_auth", "id", "api_key", "token"}

RECURSIVE Redacted(_)
\* every sensitive field of d, at any depth, holds the placeholder
Redacted(d) ==
    \A k \in DOMAIN d :
        IF IsDict(d[k]) THEN Redacted(d[k])
        ELSE k \in SensitiveFields => d[k] = S("REDACTED")

\* C21: password_filter returns a copy in which every sensitive field at any
\* depth (password, basic_auth, bearer_auth, the API key's id, api_key and
\* token) holds 'REDACTED', so that two inputs differing only in sensitive
\* values give the same output, and it leaves its argument unmodified.
C21_PasswordFilterRedactsAll ==
    util.fn = "password_filter" =>
        /\ Redacted(util.ret)
        /\ util.ret = util.twin_ret
        /\ util.data = util.given

RECURSIVE FirstColon(_, _)
\* the place of the first ":" of text at or after i, 0 if there is none
FirstColon(text, i) ==
    IF i > Len(text) THEN 0 ELSE IF text[i] = ":" THEN i ELSE FirstColon(text, i + 1)

\* what stands between "${" and "}" in the loaded scalar
Inner == SubSeq(util.value, 2, Len(util.value) - 1)

\* the NAME of the loaded scalar
PlaceholderName == Inner[1]

\* the default of the loaded scalar: None for ${NAME}, else all that follows the
\* first ":"
PlaceholderDefault ==
    IF FirstColon(Inner, 1) = 0 THEN None
    ELSE Str(SubSeq(Inner, FirstColon(Inner, 1) + 1, Len(Inner)))

\* C22: a scalar ${NAME} loads as the environment value of NAME, or None if
\* NAME is unset; ${NAME:default} loads as the environment value of NAME, or
\* the literal default if NAME is unset, for every default, also one that
\* contains ':'.
C22_PlaceholderResolves ==
    util.fn = "single_constructor" =>
        /\ util.exc = "none"
        /\ util.ret = IF PlaceholderName \in DOMAIN util.environ
                      THEN Str(util.environ[PlaceholderName])
                      ELSE PlaceholderDefault

RECURSIVE CallMethods(_, _)
\* the methods named by names called in turn, from the outcome r
CallMethods(r, names) ==
    IF names = <<>> THEN r
    ELSE CallMethods([exc |-> CallMethod(r.self, Head(names)).exc,
                      self |-> CallMethod(r.self, Head(names)).self], Tail(names))

\* Builder B as it would be had Builder A never existed: constructed from its
\* arguments as written, in a fresh process, and given its own calls
AloneB ==
    LET r == Builder__init__(builderB.inp.configdict, builderB.inp.configfile,
                             ES_DEFAULT_initial, "k2")
    IN  IF r.exc # "none" THEN [exc |-> r.exc, self |-> UNSET]
        ELSE CallMethods([exc |-> r.exc, self |-> r.self], builderB.ops)

\* what is observable through a Builder: its secrets, client_args, other_args
\* and config
Observable(self) ==
    IF self = UNSET THEN UNSET
    ELSE [secrets |-> [n \in DOMAIN self.secrets.secrets |-> get_secret(self.secrets, n)],
          client_args |-> self.client_args, other_args |-> self.other_args,
          config |-> self.config]

\* C23: whatever Builder A was given and whatever was called on it, also when
\* both Builders were given one dict object, what is observable through
\* Builder B is what it would be had A's operations not happened.
C23_BuildersShareNothing ==
    builderB.phase # "new" =>
        /\ builderB.exc = AloneB.exc
        /\ Observable(builderB.b) = Observable(AloneB.self)

\* Builder B, given the dict object of A, has moved a secret into its store
\* and had a method called, while A stored secrets of its own
C23_Witness ==
    /\ builderB.phase = "built" /\ builderB.ops # <<>>
    /\ builderB.same
    /\ DOMAIN builderB.b.secrets.secrets # {}
    /\ phase = "built" /\ "store_secret" \in {ops[i] : i \in 1..Len(ops)}

\* _check_basic_auth has just run on a Builder whose other_args were written
\* through the accessor right before
JudgedAfterWrite ==
    /\ phase = "built" /\ Len(ops) >= 2
    /\ ops[Len(ops)] = "_check_basic_auth"
    /\ ops[Len(ops) - 1] = "write_other_args"

\* C24: _check_basic_auth, run on a constructed Builder whose
\* other_args.username and other_args.password were written afterwards, raises
\* ConfigurationError when exactly one of the two is non-null, and when both
\* are non-null makes (username, password) the resolved basic_auth credential.
C24_BasicAuthJudgesOtherArgs ==
    JudgedAfterWrite =>
        LET usr == b.other_args.username
            pwd == b.other_args.password
        IN  /\ ((usr = None) # (pwd = None)) => exc = "ConfigurationError"
            /\ (usr # None /\ pwd # None) =>
                  /\ exc = "none"
                  /\ SameItems(get_secret(b.secrets, "basic_auth"), Tuple(<<usr, pwd>>))

\* the command line of ctx with every option but --config left out
NoOptions ==
    [k \in DOMAIN ctx.c.params |->
        CASE k = "config" -> ctx.c.params[k]
          [] k = "hosts" -> Tuple(<<>>)
          [] OTHER -> None]

\* the elasticsearch block the file alone gives: the merge of the same file
\* under a command line that supplies nothing
FileAlone ==
    generate_configdict(get_config(NewCtx(NoOptions)).ctx,
                        ES_DEFAULT_initial).ctx.configdict.elasticsearch

\* the value of field k of dict d, ABSENT when d does not hold it
Field(d, k) == IF IsDict(d) /\ k \in DOMAIN d THEN d[k] ELSE ABSENT

\* C25: in the merged configdict every field the command line does not supply
\* keeps the value the file supplies (hosts and cloud_id apart), and so does
\* each of the id, api_key and token subfields of other_settings.api_key when
\* the command line supplies only some of them.
C25_UnsuppliedFieldsKeepFileValue ==
    Merged =>
        LET es == ctx.c.configdict.elasticsearch
            p == ctx.c.params
        IN  /\ \A k \in config_settings \ {"hosts", "cloud_id"} :
                  (k \notin DOMAIN p \/ p[k] = None) =>
                      Field(es.client, k) = Field(FileAlone.client, k)
            /\ \A k \in {"master_only", "skip_version_test", "username", "password"} :
                  p[k] = None =>
                      Field(es.other_settings, k) = Field(FileAlone.other_settings, k)
            /\ \A k \in {"id", "api_key", "token"} :
                  p[IF k = "token" THEN "api_token" ELSE k] = None =>
                      Field(Field(es.other_settings, "api_key"), k)
                          = Field(Field(FileAlone.other_settings, "api_key"), k)

\* the reported text opens with three numbers separated by dots
ThreeNumbers(text) ==
    /\ Len(text) >= 5
    /\ text[1].k = "num" /\ text[2] = VDot /\ text[3].k = "num"
    /\ text[4] = VDot /\ text[5].k = "num"
    /\ Len(text) > 5 => text[6] \in {VDot, VDash}

\* C26: for every reported version text that opens with three numbers,
\* get_version returns the tuple of exactly those three integers: a '-suffix'
\* and every dot-separated segment beyond the third are discarded.
C26_GetVersionGivesThree ==
    (util.fn = "get_version" /\ ThreeNumbers(util.version)) =>
        /\ util.exc = "none"
        /\ util.ret = Tuple(<<util.version[1].n, util.version[3].n, util.version[5].n>>)

\* one of the resolved hosts has scheme https
SomeHostHttps ==
    /\ b.client_args.hosts # None
    /\ \E i \in 1..Len(b.client_args.hosts.v) :
          Split(b.client_args.hosts.v[i].v)[1] = "https"

\* C27: after a successful construction for which no ca_certs was configured,
\* client_args.ca_certs is the certifi bundle whenever cloud_id is set or a
\* configured host has scheme https; a configured ca_certs is left as it is.
C27_CaBundleForHttps ==
    Fresh =>
        /\ (~Supplied(SrcClient, "ca_certs")
              /\ (b.client_args.cloud_id # None \/ SomeHostHttps)) =>
                 b.client_args.ca_certs = CertifiWhere
        /\ Supplied(SrcClient, "ca_certs") =>
                 b.client_args.ca_certs = SrcClient.ca_certs

\* the port texts made only of digits
DigitTexts == {"9200", "9243", "4567", "443", "80", "21"}

\* the scheme and the port segment of a host string
UrlScheme(url) == Split(url)[1]

UrlPort(url) == Split(url)[3]

NoApiKeyInOther == \A k \in {"id", "api_key", "token"} : ~Supplied(SrcApiKey, k)

\* the arguments _get_client hands to the network client constructor
ClientKwargs == _get_client(b).self.client.kwargs

\* C29: an api_key supplied in the client block, other_settings supplying no
\* id, api_key or token, is after the construction the secret store's api_key
\* entry and the api_key _get_client hands to the network client constructor
C29_ClientApiKeyKept ==
    (Fresh /\ Supplied(SrcClient, "api_key") /\ NoApiKeyInOther) =>
        /\ SameItems(Secret("api_key"), SrcClient.api_key)
        /\ "api_key" \in DOMAIN ClientKwargs
        /\ SameItems(ClientKwargs.api_key, SrcClient.api_key)

\* str(value) as an f-string inserts it: None reads 'None'
PyStr(value) == IF IsDict(value) THEN value ELSE IF value.t = "None" THEN S("None") ELSE value

\* the message of the FailedValidation that result() raises, by its insertions
FailedValidationMsg(self) ==
    [test_what |-> "Elasticsearch Configuration", location |-> "elasticsearch",
     badvalue |-> PyStr(self.badvalue), error |-> self.error]

\* the values the property calls sensitive
SecretValueKeys == {"password", "bearer_auth", "basic_auth", "api_key", "id", "token"}

RECURSIVE Masked(_, _, _)
\* d with a fixed text for each sensitive value but the one at the path err
Masked(d, prefix, err) ==
    [k \in DOMAIN d |->
        IF IsDict(d[k]) THEN Masked(d[k], Append(prefix, k), err)
        ELSE IF k \in SecretValueKeys /\ Append(prefix, k) # err THEN S("*")
        ELSE d[k]]

RECURSIVE PyEq(_, _)
\* x == y of Python, for the values of the model
PyEq(x, y) ==
    IF IsDict(x) /\ IsDict(y)
    THEN DOMAIN x = DOMAIN y /\ \A k \in DOMAIN x : PyEq(x[k], y[k])
    ELSE IF IsDict(x) \/ IsDict(y) THEN FALSE
    ELSE x.t = y.t /\ (x.t # "None" => x.v = y.v)

\* other differs from config only in sensitive values of fields other than the
\* offending one
DiffersInSecretsOnly(config, other, err) ==
    /\ IsDict(other)
    /\ ~PyEq(other, config)
    /\ PyEq(Masked(other, <<>>, err), Masked(config, <<>>, err))

\* two messages read the same
SameMsg(m1, m2) ==
    /\ m1.test_what = m2.test_what
    /\ m1.location = m2.location
    /\ PyEq(m1.badvalue, m2.badvalue)
    /\ m1.error = m2.error

\* C30: the message of a FailedValidation does not depend on the sensitive
\* values of fields other than the offending one: an input that differs from
\* the rejected one only in such values is rejected with the same message
C30_MessageIndependentOfSecrets ==
    (sc # NoSchemaCheck /\ sc.called /\ sc.exc = "FailedValidation" /\ IsDict(sc.config)) =>
        \A other \in SchemaInputs :
            DiffersInSecretsOnly(sc.config, other, sc.error) =>
                SameMsg(FailedValidationMsg(result(SchemaCheck__init__(other), sc.error)),
                        FailedValidationMsg(sc))

====
